---- MODULE Spec2Model ----
(***************************************************************************)
(* Model of rbn.py, the Reverse Beacon Network logger: the range-filter    *)
(* compiler (parse_range_filter), the filter matcher (matches), the band   *)
(* classifier (BANDS, Record.band), the line parser (Record.parse), the    *)
(* per-record filter (Record.match) and the read-parse-filter-print loop   *)
(* of main together with the __main__ exception guard.                     *)
(*                                                                         *)
(* Texts are sequences of one-character strings.  Python values are        *)
(* tagged records: [t |-> "none"], [t |-> "int", n], [t |-> "float", n, d] *)
(* (the rational n/d, d a power of ten), [t |-> "str", s],                 *)
(* [t |-> "list", items], [t |-> "tuple", items], [t |-> "bool", b] and    *)
(* [t |-> "fn", ...] for the closures the program builds.                  *)
(***************************************************************************)
EXTENDS Integers, Sequences, FiniteSets, TLC

VARIABLES
    pc,         \* position of main: "connect", "filters", "read", "body", "raised",
                \* "exit" ("idle" when only a function is exercised)
    args,       \* the parsed command line (args.band, args.frequency, ...)
    connected,  \* connect() has run: socket opened, prompt awaited, call written
    filters,    \* the dict filters of main: keyword name -> filter spec
    stream,     \* lines the peer has sent and the loop has not read yet
    closed,     \* the peer has closed the connection
    line,       \* the variable line of main
    consumed,   \* history: the lines read so far, in order
    printed,    \* the standard output: one entry per print(rec)
    exc,        \* the exception in flight or that ended main ("none" if none)
    outcome,    \* history: what each loop body run so far did, in order
    status,     \* how the process ended: "running", "normal", "crash"
    fn,         \* pure-function harness: which function is exercised
    inp,        \* pure-function harness: its input
    out         \* pure-function harness: its result, by stage ("input" before the call)

vars == <<pc, args, connected, filters, stream, closed, line, consumed,
          printed, exc, outcome, status, fn, inp, out>>

mainvars == <<pc, args, connected, filters, stream, closed, line, consumed,
              printed, exc, outcome, status>>

fnvars == <<fn, inp, out>>

----------------------------------------------------------------------------
(* Bounds *)

MaxStream == 3      \* lines in an input stream
MaxDepth == 2       \* nesting depth of generated filter specs
MaxAlts == 2        \* comma-separated alternatives in a generated range list

----------------------------------------------------------------------------
(* Characters and texts *)

Digits == {"0", "1", "2", "3", "4", "5", "6", "7", "8", "9"}

Whitespace == {" ", "\t", "\r", "\n"}

DigitVal(c) ==
    CASE c = "0" -> 0 [] c = "1" -> 1 [] c = "2" -> 2 [] c = "3" -> 3
      [] c = "4" -> 4 [] c = "5" -> 5 [] c = "6" -> 6 [] c = "7" -> 7
      [] c = "8" -> 8 [] c = "9" -> 9

DigitChar(k) ==
    CASE k = 0 -> "0" [] k = 1 -> "1" [] k = 2 -> "2" [] k = 3 -> "3"
      [] k = 4 -> "4" [] k = 5 -> "5" [] k = 6 -> "6" [] k = 7 -> "7"
      [] k = 8 -> "8" [] k = 9 -> "9"

Min(a, b) == IF a <= b THEN a ELSE b

\* s[i:] of Python (i counted from 0)
From(s, i) == SubSeq(s, Min(i, Len(s)) + 1, Len(s))

\* s[0:k] of Python
Prefix(s, k) == SubSeq(s, 1, Min(k, Len(s)))

AllDigits(s) == \A i \in 1..Len(s) : s[i] \in Digits

\* length of the longest run of digits of s that starts at position i (1-based)
RECURSIVE DigitRun(_, _)
DigitRun(s, i) ==
    IF i <= Len(s) /\ s[i] \in Digits THEN 1 + DigitRun(s, i + 1) ELSE 0

RECURSIVE DigitsToNat(_)
DigitsToNat(s) ==
    IF s = <<>> THEN 0
    ELSE 10 * DigitsToNat(SubSeq(s, 1, Len(s) - 1)) + DigitVal(s[Len(s)])

RECURSIVE NatToDigits(_)
NatToDigits(k) ==
    IF k < 10 THEN <<DigitChar(k)>>
    ELSE Append(NatToDigits(k \div 10), DigitChar(k % 10))

RECURSIVE Pow10(_)
Pow10(k) == IF k = 0 THEN 1 ELSE 10 * Pow10(k - 1)

\* str.strip(): drop leading and trailing whitespace
RECURSIVE LStrip(_)
LStrip(s) ==
    IF s # <<>> /\ s[1] \in Whitespace THEN LStrip(Tail(s)) ELSE s

RECURSIVE RStrip(_)
RStrip(s) ==
    IF s # <<>> /\ s[Len(s)] \in Whitespace
    THEN RStrip(SubSeq(s, 1, Len(s) - 1)) ELSE s

Strip(s) == RStrip(LStrip(s))

\* str.split(','): always at least one piece
RECURSIVE Split(_, _)
Split(s, sep) ==
    IF \E i \in 1..Len(s) : s[i] = sep
    THEN LET i == CHOOSE j \in 1..Len(s) :
                     s[j] = sep /\ \A k \in 1..(j - 1) : s[k] # sep
         IN  <<SubSeq(s, 1, i - 1)>> \o Split(SubSeq(s, i + 1, Len(s)), sep)
    ELSE <<s>>

----------------------------------------------------------------------------
(* Python values *)

None == [t |-> "none"]
PyInt(k) == [t |-> "int", n |-> k]
PyFloat(k, den) == [t |-> "float", n |-> k, d |-> den]
PyStr(s) == [t |-> "str", s |-> s]
PyBool(b) == [t |-> "bool", b |-> b]
PyList(items) == [t |-> "list", items |-> items]
PyTuple(items) == [t |-> "tuple", items |-> items]

IsNum(v) == v.t \in {"int", "float"}
Numer(v) == v.n
Denom(v) == IF v.t = "float" THEN v.d ELSE 1

\* comparisons of Python numbers (int and float compare by value)
NumLt(a, b) == Numer(a) * Denom(b) < Numer(b) * Denom(a)
NumLe(a, b) == Numer(a) * Denom(b) <= Numer(b) * Denom(a)
NumEq(a, b) == Numer(a) * Denom(b) = Numer(b) * Denom(a)

\* key == val of Python, for the values of this model
RECURSIVE PyEq(_, _)
PyEq(a, b) ==
    IF IsNum(a) /\ IsNum(b) THEN NumEq(a, b)
    ELSE IF a.t # b.t THEN FALSE
    ELSE CASE a.t = "none" -> TRUE
           [] a.t = "str" -> a.s = b.s
           [] a.t = "bool" -> a.b = b.b
           [] a.t \in {"list", "tuple"} ->
                /\ Len(a.items) = Len(b.items)
                /\ \A i \in 1..Len(a.items) : PyEq(a.items[i], b.items[i])
           [] OTHER -> a = b

\* truth value of a Python object
Truthy(v) ==
    CASE v.t = "none" -> FALSE
      [] v.t = "bool" -> v.b
      [] v.t = "int" -> v.n # 0
      [] v.t = "float" -> v.n # 0
      [] v.t = "str" -> v.s # <<>>
      [] v.t \in {"list", "tuple"} -> v.items # <<>>
      [] OTHER -> TRUE

RECURSIVE Log10(_)
Log10(den) == IF den <= 1 THEN 0 ELSE 1 + Log10(den \div 10)

\* the digits of k/10^w after the point, all w of them (w >= 1)
RECURSIVE PadDigits(_, _)
PadDigits(k, w) ==
    IF w = 0 THEN <<>> ELSE Append(PadDigits(k \div 10, w - 1), DigitChar(k % 10))

RECURSIVE DropZeros(_)
DropZeros(s) ==
    IF Len(s) > 1 /\ s[Len(s)] = "0" THEN DropZeros(SubSeq(s, 1, Len(s) - 1))
    ELSE s

\* str(val) for None, int, float (of moderate size) and str
Str(v) ==
    CASE v.t = "none" -> <<"N", "o", "n", "e">>
      [] v.t = "str" -> v.s
      [] v.t = "int" ->
            IF v.n < 0 THEN <<"-">> \o NatToDigits(0 - v.n) ELSE NatToDigits(v.n)
      [] v.t = "float" ->
            LET a == IF v.n < 0 THEN 0 - v.n ELSE v.n
                w == Log10(v.d)
                frac == IF w = 0 THEN <<"0">> ELSE DropZeros(PadDigits(a % v.d, w))
            IN  (IF v.n < 0 THEN <<"-">> ELSE <<>>)
                  \o NatToDigits(a \div v.d) \o <<".">> \o frac

\* the value of the unsigned literal u, ip digits before the point and fp
\* digits after it, if that is all of u; [ok |-> FALSE] stands for ValueError
FloatValue(neg, u, ip, fp) ==
    IF /\ u # <<>>
       /\ \/ ip >= 1 /\ ip = Len(u)
          \/ ip >= 1 /\ u[ip + 1] = "." /\ ip + 1 + fp = Len(u)
          \/ ip = 0 /\ u[1] = "." /\ fp >= 1 /\ 1 + fp = Len(u)
    THEN [ok |-> TRUE,
          v |-> PyFloat((IF neg THEN -1 ELSE 1)
                          * DigitsToNat(SubSeq(u, 1, ip) \o SubSeq(u, ip + 2, ip + 1 + fp)),
                        Pow10(fp))]
    ELSE [ok |-> FALSE, v |-> None]

FloatUnsigned(neg, u) ==
    FloatValue(neg, u, DigitRun(u, 1), DigitRun(u, DigitRun(u, 1) + 2))

FloatStripped(s) ==
    IF s # <<>> /\ s[1] \in {"-", "+"} THEN FloatUnsigned(s[1] = "-", Tail(s))
    ELSE FloatUnsigned(FALSE, s)

\* float(text) on texts without exponent, underscore, inf or nan spellings:
\* optional surrounding whitespace, optional sign, digits with an optional
\* point
Float(text) == FloatStripped(Strip(text))

IntUnsigned(neg, u) ==
    IF u # <<>> /\ AllDigits(u)
    THEN [ok |-> TRUE, v |-> PyInt((IF neg THEN -1 ELSE 1) * DigitsToNat(u))]
    ELSE [ok |-> FALSE, v |-> None]

IntStripped(s) ==
    IF s # <<>> /\ s[1] \in {"-", "+"} THEN IntUnsigned(s[1] = "-", Tail(s))
    ELSE IntUnsigned(FALSE, s)

\* int(text): optional surrounding whitespace, optional sign, digits
ParseInt(text) == IntStripped(Strip(text))

----------------------------------------------------------------------------
(* parse_range_filter: the range-filter compiler *)

\* A compiled range predicate is the closure the code returns: it keeps the
\* operand TEXT and converts it with float() only when it is called.
RangeFn(op, a, b) == [t |-> "fn", kind |-> "range", op |-> op, a |-> a, b |-> b]

\* where a match of \d+(?:\.\d+)? that starts at position 1 ends, given the
\* length i1 of the run of digits there and the length f1 of the run of
\* digits after a point that follows it
End1(arg, i1, f1) ==
    IF i1 >= 1 /\ i1 + 1 <= Len(arg) /\ arg[i1 + 1] = "." /\ f1 >= 1
    THEN i1 + 1 + f1 ELSE i1

\* the match of -(\d+(?:\.\d+)) after position e1: i2 digits, a point, f2
\* digits
Group2(arg, e1, i2, f2) ==
    IF /\ e1 >= 1
       /\ e1 + 1 <= Len(arg) /\ arg[e1 + 1] = "-"
       /\ i2 >= 1
       /\ e1 + 2 + i2 <= Len(arg) /\ arg[e1 + 2 + i2] = "."
       /\ f2 >= 1
    THEN [ok |-> TRUE, g1 |-> SubSeq(arg, 1, e1),
          g2 |-> SubSeq(arg, e1 + 2, e1 + 2 + i2 + f2)]
    ELSE [ok |-> FALSE, g1 |-> <<>>, g2 |-> <<>>]

RangeMatchFrom(arg, e1) ==
    Group2(arg, e1, DigitRun(arg, e1 + 2),
           DigitRun(arg, e1 + 3 + DigitRun(arg, e1 + 2)))

\* re.match(r'(\d+(?:\.\d+)?)-(\d+(?:\.\d+))', arg): the two groups, or no
\* match.  The pattern is anchored at the start only.
RangeMatch(arg) ==
    RangeMatchFrom(arg, End1(arg, DigitRun(arg, 1),
                             DigitRun(arg, DigitRun(arg, 1) + 2)))

RangeResult(m) ==
    IF m.ok THEN [ok |-> TRUE, f |-> RangeFn("range", m.g1, m.g2)]
    ELSE [ok |-> FALSE, f |-> None]

\* a compiler that tries the one-character operators first
parse_range_filter_short_first(arg) ==
    IF Prefix(arg, 1) = <<"=">> THEN [ok |-> TRUE, f |-> RangeFn("eq", From(arg, 1), <<>>)]
    ELSE IF Prefix(arg, 1) = <<"<">> THEN [ok |-> TRUE, f |-> RangeFn("lt", From(arg, 1), <<>>)]
    ELSE IF Prefix(arg, 1) = <<">">> THEN [ok |-> TRUE, f |-> RangeFn("gt", From(arg, 1), <<>>)]
    ELSE IF Prefix(arg, 2) = <<"<", "=">> THEN [ok |-> TRUE, f |-> RangeFn("le", From(arg, 2), <<>>)]
    ELSE IF Prefix(arg, 2) = <<">", "=">> THEN [ok |-> TRUE, f |-> RangeFn("ge", From(arg, 2), <<>>)]
    ELSE IF Prefix(arg, 2) = <<"/", "=">> THEN [ok |-> TRUE, f |-> RangeFn("ne", From(arg, 2), <<>>)]
    ELSE RangeResult(RangeMatch(arg))

\* parse_range_filter(arg): [ok |-> FALSE] stands for the ValueError raised
\* at compile time
parse_range_filter(arg) ==
    IF Prefix(arg, 2) = <<"<", "=">> THEN [ok |-> TRUE, f |-> RangeFn("le", From(arg, 2), <<>>)]
    ELSE IF Prefix(arg, 2) = <<">", "=">> THEN [ok |-> TRUE, f |-> RangeFn("ge", From(arg, 2), <<>>)]
    ELSE IF Prefix(arg, 2) = <<"/", "=">> THEN [ok |-> TRUE, f |-> RangeFn("ne", From(arg, 2), <<>>)]
    ELSE IF Prefix(arg, 1) = <<"=">> THEN [ok |-> TRUE, f |-> RangeFn("eq", From(arg, 1), <<>>)]
    ELSE IF Prefix(arg, 1) = <<"<">> THEN [ok |-> TRUE, f |-> RangeFn("lt", From(arg, 1), <<>>)]
    ELSE IF Prefix(arg, 1) = <<">">> THEN [ok |-> TRUE, f |-> RangeFn("gt", From(arg, 1), <<>>)]
    ELSE RangeResult(RangeMatch(arg))

\* the comparison a compiled predicate makes between the value x and the
\* converted operand(s)
RangeCompare(op, x, lo, hi) ==
    CASE op = "le" -> NumLe(x, lo)
      [] op = "ge" -> NumLe(lo, x)
      [] op = "ne" -> ~NumEq(x, lo)
      [] op = "eq" -> NumEq(x, lo)
      [] op = "lt" -> NumLt(x, lo)
      [] op = "gt" -> NumLt(lo, x)
      [] op = "range" -> NumLe(lo, x) /\ NumLe(x, hi)

\* the outcome of a call once the operands are converted: "True", "False",
\* or the "ValueError" of float() on an operand that is not a number
CallResult(op, x, lo, hi) ==
    IF ~lo.ok \/ ~hi.ok THEN "ValueError"
    ELSE IF ~IsNum(x) THEN "TypeError"
    ELSE IF RangeCompare(op, x, lo.v, hi.v) THEN "True" ELSE "False"

\* calling a compiled predicate: the operands are converted first, then
\* compared with x (a TypeError when x is not a number)
RangeCall(f, x) ==
    IF f.op = "range" THEN CallResult(f.op, x, Float(f.a), Float(f.b))
    ELSE CallResult(f.op, x, Float(Strip(f.a)), [ok |-> TRUE, v |-> None])

ListResult(comp) ==
    IF \A i \in 1..Len(comp) : comp[i].ok
    THEN [ok |-> TRUE, v |-> PyList([i \in 1..Len(comp) |-> comp[i].f])]
    ELSE [ok |-> FALSE, v |-> None]

CompileAll(pieces) ==
    ListResult([i \in 1..Len(pieces) |-> parse_range_filter(pieces[i])])

\* list(map(parse_range_filter, text.split(','))): the list of predicates,
\* or ValueError as soon as one piece does not compile
RangeList(text) == CompileAll(Split(text, ","))

----------------------------------------------------------------------------
(* matches: the filter matcher *)

\* re.match(key, val) for patterns made of literal characters and the
\* wildcard '.': the pattern must match at the START of val
ReMatch(pattern, text) ==
    /\ Len(pattern) <= Len(text)
    /\ \A i \in 1..Len(pattern) : pattern[i] = "." \/ pattern[i] = text[i]

\* an inversion that ignores its flag
InvertAlways(match, flag) == ~match

\* `not match if key[1] else match`
Invert(match, flag) == IF flag THEN ~match ELSE match

Result(b, case) == [r |-> IF b THEN "True" ELSE "False", cases |-> {case}]

IsError(r) == r \in {"ValueError", "TypeError"}

\* matches(key, val, regex): r is "True"/"False" (the truth value of what
\* the code returns) or the name of the exception raised; cases is the set
\* of terminal branches the evaluation went through
RECURSIVE Matches(_, _, _)
RECURSIVE MatchesAny(_, _, _, _)

\* calling a callable filter: a compiled range predicate, or the speed
\* closure `lambda x : matches(speed_filters, x[0])` of main
Call(f, x) ==
    IF f.kind = "speed"
    THEN IF x.t = "tuple" THEN Matches(f.items, x.items[1], FALSE).r
         ELSE "TypeError"
    ELSE RangeCall(f, x)

\* the loop `for subkey in key: if matches(subkey, val): return True`
\* from item i on, then `return False`; m is the result for item i
AnyStep(m, items, i, val, regex) ==
    IF m.r # "False" THEN m
    ELSE [r |-> MatchesAny(items, i + 1, val, regex).r,
          cases |-> m.cases \cup MatchesAny(items, i + 1, val, regex).cases]

MatchesAny(items, i, val, regex) ==
    IF i > Len(items) THEN [r |-> "False", cases |-> {}]
    ELSE AnyStep(Matches(items[i], val, regex), items, i, val, regex)

\* the tuple case: m is the result for key[0]
TupleStep(m, flag) ==
    IF IsError(m.r) THEN m
    ELSE [r |-> IF Invert(m.r = "True", flag) THEN "True" ELSE "False",
          cases |-> m.cases]

\* the cases of matches after `if regex: val = str(val)`
MatchesVal(key, v, regex) ==
    IF key.t = "list" THEN MatchesAny(key.items, 1, v, regex)
    ELSE IF key.t = "tuple"
    THEN TupleStep(Matches(key.items[1], v, regex), Truthy(key.items[2]))
    ELSE IF regex
    THEN IF key.t = "str" THEN Result(ReMatch(key.s, v.s), "regex")
         ELSE [r |-> "TypeError", cases |-> {"regex"}]
    ELSE IF key.t = "fn" THEN [r |-> Call(key, v), cases |-> {"pred"}]
    ELSE Result(PyEq(key, v), "eq")

Matches(key, val, regex) ==
    IF key.t = "none" THEN Result(TRUE, "none")
    ELSE MatchesVal(key, IF regex THEN PyStr(Str(val)) ELSE val, regex)

----------------------------------------------------------------------------
(* BANDS, band_to_str and Record *)

Entry(label, bound) == [band |-> label, freq |-> PyInt(bound)]

BANDS == <<
    Entry(PyInt(160), 2500),
    Entry(PyInt(80), 5000),
    Entry(PyInt(60), 6000),
    Entry(PyInt(40), 8500),
    Entry(PyInt(30), 12000),
    Entry(PyInt(20), 16000),
    Entry(PyInt(17), 19500),
    Entry(PyInt(15), 22500),
    Entry(PyInt(12), 26500),
    Entry(PyInt(10), 40000),
    Entry(PyInt(6), 65000),
    Entry(PyInt(4), 120000),
    Entry(PyInt(2), 160000),
    Entry(PyFloat(125, 100), 300000),
    Entry(PyFloat(7, 10), 600000),
    Entry(PyFloat(33, 100), 1000000),
    Entry(PyFloat(23, 100), 1400000) >>

\* a lookup that takes a frequency equal to a bound as below it
BelowOrEqual(frequency, freq) == NumLe(frequency, freq)

\* `self.frequency < freq`
Below(frequency, freq) == NumLt(frequency, freq)

\* the index of the first entry of BANDS the frequency is below, 0 if none
BandIndex(frequency) ==
    IF \E i \in 1..Len(BANDS) : Below(frequency, BANDS[i].freq)
    THEN CHOOSE i \in 1..Len(BANDS) :
            /\ Below(frequency, BANDS[i].freq)
            /\ \A j \in 1..(i - 1) : ~Below(frequency, BANDS[j].freq)
    ELSE 0

\* Record.band()
Band(frequency) ==
    IF BandIndex(frequency) = 0 THEN None ELSE BANDS[BandIndex(frequency)].band

\* band_to_str(band): `band < 0` raises TypeError when band is None
band_to_str(band) ==
    IF ~IsNum(band) THEN [ok |-> FALSE, s |-> <<>>]
    ELSE IF NumLt(band, PyInt(0))
    THEN [ok |-> TRUE,
          s |-> Str(IF band.t = "int" THEN PyInt(band.n * 100)
                    ELSE PyFloat(band.n * 100, band.d)) \o <<"c", "m">>]
    ELSE [ok |-> TRUE, s |-> Str(band) \o <<"m">>]


\* A line of the feed, after line.decode('ascii').strip(), is modelled as the
\* sequence of its whitespace-separated tokens, each token a text.

RECURSIVE JoinWords(_)
JoinWords(words) ==
    IF Len(words) = 0 THEN <<>>
    ELSE IF Len(words) = 1 THEN words[1]
    ELSE words[1] \o <<" ">> \o JoinWords(Tail(words))

\* \d+\.\d+
IsDecimal(tok) ==
    LET ip == DigitRun(tok, 1)
    IN  /\ ip >= 1
        /\ ip + 1 < Len(tok)
        /\ tok[ip + 1] = "."
        /\ ip + 1 + DigitRun(tok, ip + 2) = Len(tok)

\* (\d+)(\d\d)Z
IsZulu(tok) ==
    /\ Len(tok) >= 4
    /\ tok[Len(tok)] = "Z"
    /\ AllDigits(SubSeq(tok, 1, Len(tok) - 1))

\* re.match(RGX, line) on the tokens of the line
RgxMatches(toks) ==
    /\ Len(toks) >= 12
    /\ toks[1] = <<"D", "X">>
    /\ toks[2] = <<"d", "e">>
    /\ toks[3] # <<>> /\ toks[3][Len(toks[3])] = ":"
    /\ IsDecimal(toks[4])
    /\ toks[7] # <<>> /\ AllDigits(toks[7])
    /\ toks[8] = <<"d", "B">>
    /\ toks[9] # <<>> /\ AllDigits(toks[9])
    /\ Len(JoinWords(SubSeq(toks, 11, Len(toks) - 1))) >= 2
    /\ IsZulu(toks[Len(toks)])

\* Record.parse(line): the record, or ValueError ([ok |-> FALSE])
Parse(toks) ==
    IF ~RgxMatches(toks) THEN [ok |-> FALSE]
    ELSE LET z == toks[Len(toks)]
         IN  [ok |-> TRUE,
              station_dx |-> PyStr(SubSeq(toks[3], 1, Len(toks[3]) - 1)),
              frequency |-> Float(toks[4]).v,
              station_de |-> PyStr(toks[5]),
              mode |-> PyStr(toks[6]),
              signal_strength |-> ParseInt(toks[7]).v,
              speed |-> PyTuple(<<ParseInt(toks[9]).v, PyStr(toks[10])>>),
              record_type |-> PyStr(JoinWords(SubSeq(toks, 11, Len(toks) - 1))),
              time |-> <<ParseInt(SubSeq(z, 1, Len(z) - 3)).v,
                         ParseInt(SubSeq(z, Len(z) - 2, Len(z) - 1)).v>>]

\* the keyword parameters of Record.match
MatchParams ==
    {"dx", "de", "band", "frequency", "mode", "signal_strength", "speed",
     "record_type"}

\* the list `filters` of Record.match: (key, val, rgx) in order
MatchRows(rec, kw) ==
    LET key(name) == IF name \in DOMAIN kw THEN kw[name] ELSE None
    IN  << <<key("dx"), rec.station_dx, TRUE>>,
           <<key("de"), rec.station_de, TRUE>>,
           <<key("band"), Band(rec.frequency), FALSE>>,
           <<key("frequency"), rec.frequency, FALSE>>,
           <<key("mode"), rec.mode, FALSE>>,
           <<key("signal_strength"), rec.signal_strength, FALSE>>,
           <<key("speed"), rec.speed, FALSE>>,
           <<key("record_type"), rec.record_type, FALSE>> >>

\* `for key, val, rgx in filters: if key is not None and not matches(...):
\* return False` from row i on, then `return True`
RECURSIVE MatchLoop(_, _)

\* one turn of the loop: m is the result of matches for row i
MatchStep(m, rows, i) == IF m = "True" THEN MatchLoop(rows, i + 1) ELSE m

MatchLoop(rows, i) ==
    IF i > Len(rows) THEN "True"
    ELSE IF rows[i][1].t = "none" THEN MatchLoop(rows, i + 1)
    ELSE MatchStep(Matches(rows[i][1], rows[i][2], rows[i][3]).r, rows, i)

\* rec.match(**kw): a keyword that is not a parameter raises TypeError
RecordMatch(rec, kw) ==
    IF ~(DOMAIN kw \subseteq MatchParams) THEN "TypeError"
    ELSE MatchLoop(MatchRows(rec, kw), 1)

\* the formatted line, given the result b of band_to_str
Format(rec, b) ==
    IF ~b.ok THEN [ok |-> FALSE]
    ELSE [ok |-> TRUE,
          time |-> rec.time,
          station_dx |-> rec.station_dx.s,
          band |-> b.s,
          frequency |-> Str(rec.frequency),
          station_de |-> rec.station_de.s,
          mode |-> rec.mode.s,
          signal_strength |-> Str(rec.signal_strength) \o <<" ", "d", "B">>,
          speed |-> Str(rec.speed.items[1]) \o <<" ">> \o rec.speed.items[2].s,
          record_type |-> rec.record_type.s]

\* Record.__str__: raises TypeError ([ok |-> FALSE]) when band_to_str does;
\* the column padding is left out, every field is kept
RecordStr(rec) == Format(rec, band_to_str(Band(rec.frequency)))

----------------------------------------------------------------------------
(* main: filter construction *)

\* the converted pieces of a list argument: a tuple (list, invert), or the
\* ValueError of int()
Converted(conv, invert) ==
    IF \A i \in 1..Len(conv) : conv[i].ok
    THEN [exc |-> "none",
          v |-> PyTuple(<<PyList([i \in 1..Len(conv) |-> conv[i].v]),
                          PyBool(invert)>>)]
    ELSE [exc |-> "ValueError", v |-> None]

ConvertAll(pieces, isInt, invert) ==
    Converted([i \in 1..Len(pieces) |->
                 IF isInt THEN ParseInt(pieces[i])
                 ELSE [ok |-> TRUE, v |-> PyStr(pieces[i])]], invert)

\* one of the arguments --band, --mode, --type: a leading '~' inverts, the
\* rest is a comma-separated list converted piece by piece; exc is the
\* exception raised, "none" if none
InvertedList(text, isInt) ==
    IF text = <<>> THEN [exc |-> "IndexError", v |-> None]
    ELSE IF text[1] = "~" THEN ConvertAll(Split(Tail(text), ","), isInt, TRUE)
    ELSE ConvertAll(Split(text, ","), isInt, FALSE)

\* `lambda x : matches(speed_filters, x[0])`
SpeedFn(speed_filters) ==
    [t |-> "fn", kind |-> "speed", op |-> "speed", a |-> <<>>, b |-> <<>>,
     items |-> speed_filters]

Compiled(l, wrap) ==
    IF l.ok THEN [exc |-> "none", v |-> IF wrap THEN SpeedFn(l.v) ELSE l.v]
    ELSE [exc |-> "ValueError", v |-> None]

\* one of the arguments --frequency, --speed, --signal
RangeArg(text, wrap) == Compiled(RangeList(text), wrap)

\* the statements of main that fill the dict filters, in program order:
\* <<keyword, argument, result>>
FilterParts(a) ==
    << <<"band", a.band,
         IF a.band.t = "none" THEN None ELSE InvertedList(a.band.s, TRUE)>>,
       <<"mode", a.mode,
         IF a.mode.t = "none" THEN None ELSE InvertedList(a.mode.s, FALSE)>>,
       <<"record_type", a.record_type,
         IF a.record_type.t = "none" THEN None
         ELSE InvertedList(a.record_type.s, FALSE)>>,
       <<"frequency", a.frequency,
         IF a.frequency.t = "none" THEN None ELSE RangeArg(a.frequency.s, FALSE)>>,
       <<"speed", a.speed,
         IF a.speed.t = "none" THEN None ELSE RangeArg(a.speed.s, TRUE)>>,
       <<"signal", a.signal,
         IF a.signal.t = "none" THEN None ELSE RangeArg(a.signal.s, FALSE)>> >>

\* the dict filters, given the results of the statements that fill it
FiltersFrom(a, parts) ==
    LET given == {i \in 1..Len(parts) : parts[i][2].t # "none"}
        bad == {i \in given : parts[i][3].exc # "none"}
        names == {"de", "dx"} \cup {parts[i][1] : i \in given}
    IN  IF bad # {}
        THEN [exc |-> parts[CHOOSE i \in bad : \A j \in bad : i <= j][3].exc,
              f |-> <<>>]
        ELSE [exc |-> "none",
              f |-> [k \in names |->
                       IF k = "de" THEN a.de
                       ELSE IF k = "dx" THEN a.dx
                       ELSE parts[CHOOSE i \in given : parts[i][1] = k][3].v]]

\* the dict filters main ends up with, or the first exception raised
BuildFilters(a) == FiltersFrom(a, FilterParts(a))

----------------------------------------------------------------------------
(* main: the read loop and the __main__ guard *)

\* what conn.read_until returns: a bytes object
PyBytes(data) == [t |-> "bytes", data |-> data]

\* `line is None or line != ''`
LoopCond(l) == l.t = "none" \/ ~PyEq(l, PyStr(<<>>))

\* a loop body without its except clause
CaughtNothing(e) == FALSE

\* `except ValueError: pass` of the loop body
Caught(e) == e = "ValueError"

\* a guard without its EOFError handler
GuardCatchesInterruptOnly(e) == e = "KeyboardInterrupt"

\* `except KeyboardInterrupt` and `except EOFError` of the __main__ guard
GuardCatches(e) == e \in {"KeyboardInterrupt", "EOFError"}

\* print(rec): text is the result of str(rec)
TryPrint(text) ==
    IF ~text.ok THEN [exc |-> "TypeError", print |-> <<>>, what |-> "print_error"]
    ELSE [exc |-> "none", print |-> <<text>>, what |-> "printed"]

\* `if rec.match(**filters): print(rec)`: m is the result of rec.match
TryMatch(m, rec) ==
    IF m = "TypeError" THEN [exc |-> "TypeError", print |-> <<>>, what |-> "match_error"]
    ELSE IF m = "ValueError" THEN [exc |-> "ValueError", print |-> <<>>, what |-> "pred_error"]
    ELSE IF m = "False" THEN [exc |-> "none", print |-> <<>>, what |-> "filtered"]
    ELSE TryPrint(RecordStr(rec))

TryRecord(rec, kw) ==
    IF ~rec.ok THEN [exc |-> "ValueError", print |-> <<>>, what |-> "parse_error"]
    ELSE TryMatch(RecordMatch(rec, kw), rec)

\* the body of the try statement for one line: what it prints, and the
\* exception it raises ("none" if none)
TryBody(toks, kw) == TryRecord(Parse(toks), kw)

----------------------------------------------------------------------------
(* Inputs of the main program *)

NoArgs ==
    [band |-> None, mode |-> None, record_type |-> None, frequency |-> None,
     speed |-> None, signal |-> None, de |-> None, dx |-> None]

\* command lines with one filter argument: <<argument, text>>
ArgChoices ==
    { <<"band", <<"2", "0">>>>,
      <<"band", <<"2", "0", ",", "4", "0">>>>,
      <<"band", <<"~", "2", "0">>>>,
      <<"mode", <<"C", "W">>>>,
      <<"mode", <<"~", "C", "W">>>>,
      <<"record_type", <<"C", "Q">>>>,
      <<"frequency", <<">", "=", "1", "4", "0", "0", "0">>>>,
      <<"frequency", <<"7", "0", "0", "0", "-", "7", "1", "0", "0", ".", "5">>>>,
      <<"frequency", <<"<", "a", "b", "c">>>>,
      <<"frequency", <<"b", "o", "g", "u", "s">>>>,
      <<"speed", <<">", "2", "0">>>>,
      <<"speed", <<"<", "a", "b", "c">>>>,
      <<"signal", <<">", "=", "1", "5">>>>,
      <<"signal", <<"<", "1", "5", ",", ">", "=", "3", "0">>>>,
      <<"signal", <<"b", "o", "g", "u", "s">>>>,
      <<"de", <<"W", "1">>>> }

ArgSets ==
    {NoArgs} \cup {[NoArgs EXCEPT ![c[1]] = PyStr(c[2])] : c \in ArgChoices}

\* "DX de SK:  <freq>  <de>  <mode>  <db> dB  25 WPM  CQ  1234Z"
Spot(freq, de, mode, db) ==
    << <<"D", "X">>, <<"d", "e">>, <<"S", "K", ":">>, freq, de, mode, db,
       <<"d", "B">>, <<"2", "5">>, <<"W", "P", "M">>, <<"C", "Q">>,
       <<"1", "2", "3", "4", "Z">> >>

W1AW == <<"W", "1", "A", "W">>
K2XY == <<"K", "2", "X", "Y">>

\* the lines the peer may send: three spots within the band table (two on
\* 20 m, one on 40 m), one above every bound, and one malformed line
Lines ==
    { Spot(<<"1", "4", "0", "2", "5", ".", "0">>, W1AW, <<"C", "W">>, <<"2", "0">>),
      Spot(<<"1", "4", "0", "3", "0", ".", "5">>, K2XY, <<"C", "W">>, <<"1", "2">>),
      Spot(<<"7", "0", "1", "0", ".", "0">>, W1AW, <<"R", "T", "T", "Y">>, <<"3", "0">>),
      Spot(<<"1", "4", "0", "0", "0", "0", "0", ".", "0">>, K2XY, <<"C", "W">>, <<"2", "0">>),
      Spot(<<"1", "4", "0", "2", "5">>, W1AW, <<"C", "W">>, <<"2", "0">>) }

----------------------------------------------------------------------------
(* Actions of the main program *)

Idle == fn = "none" /\ inp = None /\ out = None

Init ==
    /\ pc = "connect"
    /\ args \in ArgSets
    /\ connected = FALSE
    /\ filters = <<>>
    /\ stream = <<>>
    /\ closed = FALSE
    /\ line = None
    /\ consumed = <<>>
    /\ printed = <<>>
    /\ exc = "none"
    /\ outcome = <<>>
    /\ status = "running"
    /\ Idle

\* conn = connect(args.call, args.host, args.port, args.timeout)
Connect ==
    /\ pc = "connect"
    /\ connected' = TRUE
    /\ pc' = "filters"
    /\ UNCHANGED <<args, filters, stream, closed, line, consumed, printed,
                   exc, outcome, status, fnvars>>

\* the construction of the dict filters, then the first test of the loop
Build ==
    /\ pc = "filters"
    /\ LET b == BuildFilters(args)
       IN  IF b.exc # "none"
           THEN /\ exc' = b.exc
                /\ pc' = "raised"
                /\ UNCHANGED <<filters, status>>
           ELSE /\ filters' = b.f
                /\ exc' = exc
                /\ pc' = IF LoopCond(line) THEN "read" ELSE "exit"
                /\ status' = IF LoopCond(line) THEN status ELSE "normal"
    /\ UNCHANGED <<args, connected, stream, closed, line, consumed, printed,
                   outcome, fnvars>>

\* line = conn.read_until(b'\r\n'): the next line, or EOFError once the peer
\* has closed and nothing is left; it blocks while nothing has arrived
Read ==
    /\ pc = "read"
    /\ \/ /\ stream # <<>>
          /\ line' = PyBytes(Head(stream))
          /\ stream' = Tail(stream)
          /\ consumed' = Append(consumed, Head(stream))
          /\ pc' = "body"
          /\ exc' = exc
       \/ /\ stream = <<>>
          /\ closed
          /\ exc' = "EOFError"
          /\ pc' = "raised"
          /\ UNCHANGED <<line, stream, consumed>>
    /\ UNCHANGED <<args, connected, filters, closed, printed, outcome, status,
                   fnvars>>

\* the try statement of the loop, then the test of the loop
Body ==
    /\ pc = "body"
    /\ LET b == TryBody(line.data, filters)
       IN  /\ outcome' = Append(outcome, b.what)
           /\ printed' = printed \o b.print
           /\ IF b.exc = "none" \/ Caught(b.exc)
              THEN /\ exc' = exc
                   /\ pc' = IF LoopCond(line) THEN "read" ELSE "exit"
                   /\ status' = IF LoopCond(line) THEN status ELSE "normal"
              ELSE /\ exc' = b.exc
                   /\ pc' = "raised"
                   /\ status' = status
    /\ UNCHANGED <<args, connected, filters, stream, closed, line, consumed,
                   fnvars>>

\* Ctrl-C: KeyboardInterrupt is raised wherever main is
Interrupt ==
    /\ pc \in {"connect", "filters", "read", "body"}
    /\ exc' = "KeyboardInterrupt"
    /\ pc' = "raised"
    /\ UNCHANGED <<args, connected, filters, stream, closed, line, consumed,
                   printed, outcome, status, fnvars>>

\* the try statement around main(): the two handlers end the process
\* normally, any other exception is a traceback
Guard ==
    /\ pc = "raised"
    /\ status' = IF GuardCatches(exc) THEN "normal" ELSE "crash"
    /\ pc' = "exit"
    /\ UNCHANGED <<args, connected, filters, stream, closed, line, consumed,
                   printed, exc, outcome, fnvars>>

\* the peer sends one more line
PeerSend ==
    /\ connected
    /\ ~closed
    /\ Len(consumed) + Len(stream) < MaxStream
    /\ \E l \in Lines : stream' = Append(stream, l)
    /\ UNCHANGED <<pc, args, connected, filters, closed, line, consumed,
                   printed, exc, outcome, status, fnvars>>

\* the peer closes the connection
PeerClose ==
    /\ connected
    /\ ~closed
    /\ closed' = TRUE
    /\ UNCHANGED <<pc, args, connected, filters, stream, line, consumed,
                   printed, exc, outcome, status, fnvars>>

Next ==
    \/ Connect
    \/ Build
    \/ Read
    \/ Body
    \/ Interrupt
    \/ Guard
    \/ PeerSend
    \/ PeerClose

Spec == Init /\ [][Next]_vars

\* the interpreter does not stop at a read that can return or raise, nor
\* before the handler of an exception in flight; the peer and the user are
\* free
FairSpec == Spec /\ WF_vars(Read) /\ WF_vars(Guard)

----------------------------------------------------------------------------
(* Harness for the pure functions: the main program does not run *)

MainIdle ==
    /\ pc = "idle"
    /\ args = NoArgs
    /\ connected = FALSE
    /\ filters = <<>>
    /\ stream = <<>>
    /\ closed = FALSE
    /\ line = None
    /\ consumed = <<>>
    /\ printed = <<>>
    /\ exc = "none"
    /\ outcome = <<>>
    /\ status = "running"

\* --- range filters: compile a comma-separated list, then apply it ---------

\* numeric literals with the number each denotes
OperandLits ==
    { [text |-> <<"5">>, val |-> PyInt(5)],
      [text |-> <<"4", ".", "5">>, val |-> PyFloat(45, 10)],
      [text |-> <<" ", "1", "0", " ">>, val |-> PyInt(10)] }

LowLits ==
    { [text |-> <<"5">>, val |-> PyInt(5)],
      [text |-> <<"4", ".", "5">>, val |-> PyFloat(45, 10)] }

HighLits ==
    { [text |-> <<"1", "0">>, val |-> PyInt(10)],
      [text |-> <<"1", "0", ".", "0">>, val |-> PyInt(10)],
      [text |-> <<"6", ".", "2", "5">>, val |-> PyFloat(625, 100)] }

OpText(op) ==
    CASE op = "le" -> <<"<", "=">>
      [] op = "ge" -> <<">", "=">>
      [] op = "ne" -> <<"/", "=">>
      [] op = "eq" -> <<"=">>
      [] op = "lt" -> <<"<">>
      [] op = "gt" -> <<">">>

Ops == {"le", "ge", "ne", "eq", "lt", "gt"}

\* one range expression: its text, and what it is meant to denote
OpAlts ==
    { [form |-> "op", op |-> o, lo |-> x.val, hi |-> x.val,
       text |-> OpText(o) \o x.text] : o \in Ops, x \in OperandLits }

SpanAlts ==
    { [form |-> "span", op |-> "range", lo |-> x.val, hi |-> y.val,
       text |-> x.text \o <<"-">> \o y.text] : x \in LowLits, y \in HighLits }

JunkAlts ==
    { [form |-> "junk", op |-> "none", lo |-> None, hi |-> None, text |-> t] :
        t \in { <<"b", "o", "g", "u", "s">>, <<"<", "a", "b", "c">> } }

Alts == OpAlts \cup SpanAlts \cup JunkAlts

AltSeqs == UNION { [1..k -> Alts] : k \in 1..MaxAlts }

RangeValues ==
    { PyInt(4), PyInt(5), PyInt(10), PyFloat(4999, 1000), PyFloat(10001, 1000) }

RECURSIVE JoinAlts(_)
JoinAlts(alts) ==
    IF Len(alts) = 1 THEN alts[1].text
    ELSE alts[1].text \o <<",">> \o JoinAlts(Tail(alts))

InitRange ==
    /\ MainIdle
    /\ fn = "range"
    /\ inp \in [alts : AltSeqs, v : RangeValues]
    /\ out = [stage |-> "input"]

\* list(map(parse_range_filter, text.split(','))) at start-up
Compile ==
    /\ fn = "range"
    /\ out.stage = "input"
    /\ LET c == RangeList(JoinAlts(inp.alts))
       IN  out' = [stage |-> "compiled", ok |-> c.ok, f |-> c.v]
    /\ UNCHANGED <<mainvars, fn, inp>>

\* matches(the list, value) on a record
Evaluate ==
    /\ fn = "range"
    /\ out.stage = "compiled"
    /\ out.ok
    /\ out' = [stage |-> "called", ok |-> TRUE, f |-> out.f,
               r |-> Matches(out.f, inp.v, FALSE).r]
    /\ UNCHANGED <<mainvars, fn, inp>>

NextRange == Compile \/ Evaluate

SpecRange == InitRange /\ [][NextRange]_vars

\* --- matches on generated filter specs ------------------------------------

\* terminal specs without regex: absent, an exact value, a predicate
Leaves == { None, PyInt(5), RangeFn("gt", <<"6">>, <<>>) }

\* terminal specs with regex: absent, a pattern
RegexLeaves == { None, PyStr(<<"W", "1">>) }

RECURSIVE SpecsOf(_, _)

\* the specs one level deeper than those of the set s
Deeper(s) ==
    s \cup {PyList(<<>>)}
      \cup {PyList(<<a, b>>) : a \in s, b \in s}
      \cup {PyTuple(<<a, PyBool(f)>>) : a \in s, f \in BOOLEAN}

SpecsOf(leaves, d) == IF d = 0 THEN leaves ELSE Deeper(SpecsOf(leaves, d - 1))

MatchValues == { PyInt(5), PyInt(7) }

RegexValues == { PyStr(<<"W", "1", "A", "W">>), PyStr(<<"K", "W", "1">>) }

InitMatches ==
    /\ MainIdle
    /\ fn = "matches"
    /\ \/ inp \in [key : SpecsOf(Leaves, MaxDepth), val : MatchValues, regex : {FALSE}]
       \/ inp \in [key : SpecsOf(RegexLeaves, MaxDepth), val : RegexValues, regex : {TRUE}]
    /\ out = [stage |-> "input"]

CallMatches ==
    /\ fn = "matches"
    /\ out.stage = "input"
    /\ LET m == Matches(inp.key, inp.val, inp.regex)
       IN  out' = [stage |-> "done", r |-> m.r, cases |-> m.cases]
    /\ UNCHANGED <<mainvars, fn, inp>>

NextMatches == CallMatches

SpecMatches == InitMatches /\ [][NextMatches]_vars

\* --- Record.band on pairs of frequencies ----------------------------------

\* every bound of the table, and the frequencies half a kHz on either side
BandFreqs ==
    { PyFloat(10 * BANDS[i].freq.n + d, 10) : i \in 1..Len(BANDS), d \in {-5, 0, 5} }

InitBand ==
    /\ MainIdle
    /\ fn = "band"
    /\ inp \in [f1 : BandFreqs, f2 : BandFreqs]
    /\ out = [stage |-> "input"]

CallBand ==
    /\ fn = "band"
    /\ out.stage = "input"
    /\ out' = [stage |-> "done", b1 |-> Band(inp.f1), b2 |-> Band(inp.f2)]
    /\ UNCHANGED <<mainvars, fn, inp>>

NextBand == CallBand

SpecBand == InitBand /\ [][NextBand]_vars

----------------------------------------------------------------------------
(* Properties of the main program (Spec, FairSpec) *)

\* the lines whose loop body has run
Processed == SubSeq(consumed, 1, Len(outcome))

\* the only filter argument given is the named one
OnlyArg(name) ==
    /\ args[name].t = "str"
    /\ \A k \in DOMAIN args : k # name => args[k].t = "none"

\* what the loop prints for the lines of a sequence
Formatted(lines) == [i \in 1..Len(lines) |-> RecordStr(Parse(lines[i]))]

\* main ran into no exception other than end-of-stream or interrupt
NoFailure ==
    /\ exc \in {"none", "EOFError", "KeyboardInterrupt"}
    /\ status # "crash"

\* the number v satisfies the range expression written as the text piece
Satisfies(v, piece) ==
    /\ parse_range_filter(piece).ok
    /\ RangeCall(parse_range_filter(piece).f, v) = "True"

SatisfiesSome(v, text) ==
    \E i \in 1..Len(Split(text, ",")) : Satisfies(v, Split(text, ",")[i])

\* the line parses and its signal strength satisfies one of the ranges
SignalPasses(toks) ==
    /\ Parse(toks).ok
    /\ SatisfiesSome(Parse(toks).signal_strength, args.signal.s)

\* C1: with a signal-strength range filter and no other filter, the loop
\* prints a parsed record iff its signal strength satisfies at least one of
\* the comma-separated ranges, and the run goes on until end-of-stream or
\* interrupt.
C1_SignalFilterEmits ==
    (OnlyArg("signal") /\ RangeList(args.signal.s).ok) =>
        /\ printed = Formatted(SelectSeq(Processed, SignalPasses))
        /\ NoFailure

\* the range arguments given on the command line
RangeTexts ==
    {args[k].s : k \in {k \in {"frequency", "speed", "signal"} : args[k].t = "str"}}

\* the text is an operator followed by a number, or two decimals around a
\* hyphen: an expression of the range grammar
IsRangeExpr(piece) ==
    \/ \E o \in Ops :
          /\ Len(piece) > Len(OpText(o))
          /\ Prefix(piece, Len(OpText(o))) = OpText(o)
          /\ piece[Len(OpText(o)) + 1] \notin {"=", "<", ">"}
          /\ Float(From(piece, Len(OpText(o)))).ok
    \/ \E i \in 2..(Len(piece) - 1) :
          /\ piece[i] = "-"
          /\ Float(SubSeq(piece, 1, i - 1)).ok
          /\ Float(SubSeq(piece, i + 1, Len(piece))).ok

IsRangeList(text) ==
    \A i \in 1..Len(Split(text, ",")) : IsRangeExpr(Split(text, ",")[i])

\* C3: a range text that is not an expression of the grammar is rejected at
\* start-up, so that no evaluation of a range predicate raises an error once
\* the read loop has started.
C3_NoRangeErrorMidStream ==
    /\ pc \in {"read", "body"} => \A t \in RangeTexts : IsRangeList(t)
    /\ \A i \in 1..Len(outcome) : outcome[i] # "pred_error"

\* C4: when a configured range filter has invalid syntax, the connect step
\* never happens.
C4_InvalidRangeNeverConnects ==
    (\E t \in RangeTexts : ~RangeList(t).ok) => ~connected

\* the integers of a band argument
BandList(text) ==
    LET body == IF text[1] = "~" THEN Tail(text) ELSE text
    IN  {ParseInt(Split(body, ",")[i]).v : i \in 1..Len(Split(body, ","))}

\* the line parses and its band is one of the listed integers
OnListedBand(toks) ==
    /\ Parse(toks).ok
    /\ IsNum(Band(Parse(toks).frequency))
    /\ \E b \in BandList(args.band.s) : NumEq(b, Band(Parse(toks).frequency))

\* the line parses and its band, if it has one, is not listed
OffListedBand(toks) == Parse(toks).ok /\ ~OnListedBand(toks)

\* C5: with a non-inverted band list, the records printed are exactly the
\* lines that parse and whose band is listed, in input order; a malformed
\* line prints nothing, raises nothing past the loop, and the loop reads on.
C5_BandFilterSubsequence ==
    /\ [](OnlyArg("band") /\ args.band.s[1] # "~" =>
            /\ printed = Formatted(SelectSeq(Processed, OnListedBand))
            /\ exc \in {"none", "EOFError", "KeyboardInterrupt"}
            /\ status # "crash")
    /\ [][(/\ OnlyArg("band") /\ args.band.s[1] # "~"
           /\ pc = "body" /\ ~Parse(line.data).ok
           /\ pc' # pc /\ exc' # "KeyboardInterrupt")
          => (pc' = "read" /\ printed' = printed /\ exc' = "none")]_vars

C5_Witness ==
    /\ OnlyArg("band") /\ args.band.s[1] # "~"
    /\ pc = "read"
    /\ Len(consumed) = 3
    /\ ~Parse(consumed[2]).ok
    /\ Len(printed) = 2

\* C6: with the inverted band filter ~20, every parsed record whose band is
\* not 20 (a record with no band included) is printed, in input order, and
\* processing continues.
C6_InvertedBandComplement ==
    (OnlyArg("band") /\ args.band.s[1] = "~") =>
        /\ printed = Formatted(SelectSeq(Processed, OffListedBand))
        /\ NoFailure

\* the peer has closed, everything sent has been read, and the loop is at
\* its read: the next read signals end-of-stream
EndOfStream == pc = "read" /\ stream = <<>> /\ closed

\* C7: once the peer has closed the connection and the stream is at its
\* end, the loop stops reading and the process ends normally, not in a
\* crash.
C7_EndOfStreamTerminates ==
    EndOfStream ~> (pc = "exit" /\ status = "normal")

C7_Witness ==
    /\ pc = "exit"
    /\ exc = "EOFError"
    /\ status = "normal"
    /\ Len(consumed) >= 1
    /\ closed

----------------------------------------------------------------------------
(* Properties of the range-filter compiler (SpecRange) *)

\* what the operator of a range expression means for the value v and the
\* number x written after it
OpMeans(op, v, x) ==
    CASE op = "le" -> NumLe(v, x)
      [] op = "ge" -> NumLe(x, v)
      [] op = "ne" -> ~NumEq(v, x)
      [] op = "eq" -> NumEq(v, x)
      [] op = "lt" -> NumLt(v, x)
      [] op = "gt" -> NumLt(x, v)

AllOfForm(form) == \A i \in 1..Len(inp.alts) : inp.alts[i].form = form

\* C2: for decimal literals X and Y, integer literals included,
\* parse_range_filter("X-Y") succeeds and the predicate is true of v iff
\* X <= v <= Y.
C2_SpanInclusive ==
    (fn = "range" /\ Len(inp.alts) = 1 /\ AllOfForm("span")) =>
        /\ out.stage = "compiled" => out.ok
        /\ out.stage = "called" =>
             out.r = IF NumLe(inp.alts[1].lo, inp.v) /\ NumLe(inp.v, inp.alts[1].hi)
                     THEN "True" ELSE "False"

\* C10: each operator prefix is read as the operator it spells, the
\* two-character ones never as a one-character operator with a malformed
\* operand, and a comma-separated list accepts v iff at least one of its
\* expressions does.
C10_OperatorsAndLists ==
    (fn = "range" /\ AllOfForm("op")) =>
        /\ out.stage \in {"compiled", "called"} =>
             /\ out.ok
             /\ Len(out.f.items) = Len(inp.alts)
             /\ \A i \in 1..Len(inp.alts) : out.f.items[i].op = inp.alts[i].op
        /\ out.stage = "called" =>
             out.r = IF \E i \in 1..Len(inp.alts) :
                           OpMeans(inp.alts[i].op, inp.v, inp.alts[i].lo)
                     THEN "True" ELSE "False"

C10_Witness ==
    /\ fn = "range"
    /\ out.stage = "called"
    /\ Len(inp.alts) = 2
    /\ inp.alts[1].op = "le" /\ inp.alts[1].lo = PyFloat(45, 10)
    /\ inp.alts[2].op = "ne" /\ inp.alts[2].lo = PyInt(5)
    /\ inp.v = PyInt(10)
    /\ out.r = "True"

----------------------------------------------------------------------------
(* Properties of the filter matcher (SpecMatches) *)

\* the truth value of matches for a sub-spec of the input, on the same value
Holds(key) == Matches(key, inp.val, inp.regex).r = "True"

MatchesLaws ==
    /\ out.r \in {"True", "False"}
    /\ inp.key.t = "none" => out.r = "True"
    /\ (inp.key.t = "list" /\ Len(inp.key.items) = 2) =>
          (out.r = "True" <=> Holds(inp.key.items[1]) \/ Holds(inp.key.items[2]))
    /\ (inp.key.t = "tuple" /\ inp.key.items[2].b) =>
          (out.r = "True" <=> ~Holds(inp.key.items[1]))
    /\ (inp.key.t = "tuple" /\ ~inp.key.items[2].b) =>
          (out.r = "True" <=> Holds(inp.key.items[1]))

\* C8 as stated: the laws of None, lists and inversion hold, and the
\* recursion through lists and inversions always ends in an exact-equality,
\* regex or predicate case.
C8_TerminalCasesAsStated ==
    (fn = "matches" /\ out.stage = "done") =>
        /\ MatchesLaws
        /\ inp.key.t \in {"list", "tuple"} =>
             /\ out.cases # {}
             /\ out.cases \subseteq {"eq", "regex", "pred"}

\* C8 as amended: the laws of None, lists and inversion hold, and the
\* recursion always terminates, every terminal case reached being an absent
\* spec, an exact equality, a regex or a predicate (none at all when a list
\* has no element to try).
C8_MatchesLaws ==
    (fn = "matches" /\ out.stage = "done") =>
        /\ MatchesLaws
        /\ out.cases \subseteq {"none", "eq", "regex", "pred"}

C8_Witness ==
    /\ fn = "matches"
    /\ out.stage = "done"
    /\ inp.key.t = "tuple"
    /\ inp.key.items[2].b
    /\ inp.key.items[1].t = "list"
    /\ Len(inp.key.items[1].items) = 2
    /\ inp.val = PyInt(7)
    /\ out.cases = {"eq", "pred"}
    /\ out.r = "False"

----------------------------------------------------------------------------
(* Properties of the band classifier (SpecBand) *)

\* the position in the table of a band label, 0 for no band
Pos(label) ==
    IF label.t = "none" THEN 0
    ELSE CHOOSE i \in 1..Len(BANDS) : BANDS[i].band = label

\* the position of the first entry whose bound strictly exceeds f, 0 if none
FirstAbove(f) ==
    IF \E i \in 1..Len(BANDS) : NumLt(f, BANDS[i].freq)
    THEN CHOOSE i \in 1..Len(BANDS) :
            /\ NumLt(f, BANDS[i].freq)
            /\ \A j \in 1..(i - 1) : NumLe(BANDS[j].freq, f)
    ELSE 0

\* C9: the bounds of the table are strictly ascending; band() is the label
\* of the first entry whose bound strictly exceeds the frequency, or no band;
\* for f1 < f2 below the top bound the position of band(f1) is not after
\* that of band(f2); a frequency equal to a bound falls in the next entry.
C9_BandLookup ==
    /\ \A i \in 1..(Len(BANDS) - 1) : NumLt(BANDS[i].freq, BANDS[i + 1].freq)
    /\ (fn = "band" /\ out.stage = "done") =>
          /\ Pos(out.b1) = FirstAbove(inp.f1)
          /\ Pos(out.b2) = FirstAbove(inp.f2)
          /\ (/\ NumLt(inp.f1, inp.f2)
              /\ NumLt(inp.f2, BANDS[Len(BANDS)].freq)) =>
                (Pos(out.b1) >= 1 /\ Pos(out.b1) <= Pos(out.b2))
          /\ \A k \in 1..Len(BANDS) :
                NumEq(inp.f1, BANDS[k].freq) =>
                    Pos(out.b1) = IF k < Len(BANDS) THEN k + 1 ELSE 0

C9_Witness ==
    /\ fn = "band"
    /\ out.stage = "done"
    /\ inp.f1 = PyFloat(160000, 10)
    /\ inp.f2 = PyFloat(194995, 10)
    /\ out.b1 = PyInt(17)
    /\ out.b2 = PyInt(17)

====
